---- MODULE Spec2Model ----
(***************************************************************************)
(* A model of trnscrb: the MicWatcher presence state machine               *)
(* (watcher.py), its callers (menu_bar.py, cli.py watch) and the MCP       *)
(* server's background pipeline (mcp_server.py).                           *)
(*                                                                         *)
(* Time.  The watcher only ever reads the differences (now - _since) and   *)
(* (now - _rec_started), so a timestamp is kept as its age in whole        *)
(* seconds relative to the current datetime.now(): `self._since = now` is  *)
(* since' = 0 and time passing (the sleep at the end of an iteration plus  *)
(* the duration of the slow calls) adds to every age.  None is -1.         *)
(***************************************************************************)
EXTENDS Integers, Sequences, FiniteSets, TLC

\* ---- program constants (watcher.py) ----
WARMUP_SECS == 5
GRACE_SECS == 5
MIN_SAVE_SECS == 30
POLL_SECS == 1
APP_POLL_EVERY == 4
APP_GONE_POLLS == 3

\* ---- bounds of the model ----
MaxAge == 36        \* oldest timestamp followed while a session is in progress
MaxDelta == 2       \* longest time (s) one loop iteration plus its sleep takes
MaxThreads == 1     \* poll-loop threads alive at once, when conversations take place
MaxLoops == 2       \* poll-loop threads alive at once, when none takes place
MaxRuns == 2        \* pipeline runs (_process_audio threads) followed at once
MaxFrames == 1      \* frames followed in a recorder's buffer
MaxSegs == 1        \* segments a transcription returns
MaxTurns == 1       \* turns a diarization returns
MaxTime == 2        \* latest time (s) of a segment or turn given to merge
MaxDiar == 2        \* turns in the diarization given to merge
MaxBlocks == 3      \* audio callbacks invoked during one capture
MaxLeaked == 1      \* streams left open with no reference to them

None == -1
Threads == 1..MaxLoops

VARIABLES
    running,        \* MicWatcher._running
    state,          \* MicWatcher._state
    since,          \* age of MicWatcher._since, None when unset
    rec_started,    \* age of MicWatcher._rec_started, None when unset
    no_app_polls,   \* MicWatcher._no_app_polls
    pc,             \* per loop thread: "dead", "ready" (at `while
                    \* self._running`), "body" (past that test, in the
                    \* iteration, when stop() cleared the flag), "sleep",
                    \* "callback" (inside watch.on_stop, running the pipeline)
    app_counter,    \* per loop thread: the local _app_counter of _loop
    \* ---- observers (what a caller of the watcher can see) ----
    active,         \* the last value is_mic_in_use() returned to the loop
    ev,             \* callback invoked by the last step: "none", "start", "stop"
    n_start,        \* on_start calls since the current Idle->... traversal began
    n_stop,         \* on_stop calls since the current traversal began
    last_event,     \* the most recent callback over the whole run
    run,            \* age (capped at WARMUP_SECS) of the first tick of the current
                    \* run of consecutive mic-active ticks that began in Idle; None
    run_len,        \* that run's length: the value of run at its latest tick; None
    left,           \* age of the moment Active was last left for Cooling; None
    stopped,        \* stop() has been called on this watcher
    \* ---- mcp_server.py: module state ----
    m_rec,          \* _recorder: "none", "recording", or "broken" (a Recorder whose
                    \* start() raised: is_recording is true, no stream is open)
    m_frames,       \* number of frames in _recorder._frames
    m_started,      \* _recording_started_at is set
    m_processing,   \* _processing
    m_last_result,  \* _last_result: the run whose result it holds, 0 for None
    m_last_error,   \* _last_error: the run whose error it holds, 0 for None
    m_pending,      \* a stop_recording call past its locked section: its clip, or 0
    \* ---- mcp_server.py: the _process_audio threads, by run ----
    r_pc,           \* position: "unborn", "transcribe", "diarize", "save",
                    \* "result", "except", "finally"; a run that
                    \* has returned leaves its slot "unborn" for a later run
    r_clip,         \* the temporary WAV: "none", "exists", "deleted"
    r_segs,         \* the speaker labels of `segments`, in order
    r_diar,         \* diarization: "none", "skipped", "ok", "failed"
    r_fail,         \* the stage whose exception reached `except`: "none",
                    \* "transcribe", "token", "save"
    r_saved,        \* the labels of the transcript written by save_transcript
    r_out,          \* the slot the run wrote: "none", "done", "failed"
    r_unlinks,      \* audio_path.unlink calls the run has made
    \* ---- the watcher's callers: menu_bar.py (TrnscrbApp), cli.py (watch) ----
    caller,         \* "menu", "headless", or "exited" (watch after _shutdown)
    a_state,        \* TrnscrbApp._current_state
    a_rec,          \* self._recorder / _recorder_ref[0]: "none", "recording",
                    \* "broken" (start() raised: is_recording true, no stream)
    p_pc,           \* TrnscrbApp._process thread: "none", "stop", "transcribe",
                    \* "diarize", "save", "crashed" (an exception ended it)
    p_clip,         \* the clip of the caller's latest run: "none", "exists",
                    \* "deleted"
    p_unlinks,      \* audio_path.unlink calls that run has made
    \* ---- observers of the callers ----
    conv_capture,   \* what on_start did for the current conversation: "none",
                    \* "started", "ignored"; "taken" once stopped by hand
    conv_runs,      \* pipeline runs begun by the conversation's on_stop
    \* ---- diarizer.py: one call of merge(transcript, diarization) ----
    g_transcript,   \* the list of segments (mutated in place by merge)
    g_diar,         \* the list of turns
    g_merged,       \* merge has returned
    \* ---- recorder.py: one Recorder object, its streams and its caller ----
    rc_recording,   \* self._recording
    rc_stream,      \* self._stream: "none" or "open"
    rc_frames,      \* self._frames: the blocks appended, in order
    rc_leaked,      \* streams still open that self._stream no longer refers to
    rc_cb,          \* _callback in the audio thread of the referenced stream
                    \* (.cur) and of a leaked one (.old): "idle", or
                    \* "checked" (past `if self._recording`, append pending)
    rc_blk,         \* the block each pending callback holds
    rc_next,        \* callbacks invoked for the current capture (one still
                    \* running when start() is called counts for the new
                    \* capture); blocks of the referenced stream are
                    \* numbered by it, a leaked stream's blocks are 0
    rc_stop,        \* the stop() call: "none", "flagged" (_recording
                    \* cleared), "closed" (stream released), "copied"
                    \* (frames copied under the lock), "returned"
    rc_was_active,  \* _recording when stop() was called
    rc_copy,        \* stop()'s local `frames`
    rc_ret,         \* what stop() returned: "-" (not yet), "None", "clip",
                    \* "raised"
    \* ---- watcher.py: closer observers of the calls and the app checks ----
    op,             \* "start" when the last step was a call of start(), else "-"
    chk,            \* is_meeting_app_running() in the last iteration: "pos",
                    \* "neg", or "none" when it was not called
    neg,            \* consecutive negative app checks made in Active, up to
                    \* APP_GONE_POLLS
    warm            \* a conversation has ended (on_stop) and since then every
                    \* iteration found the mic active and no app check was positive

watcherVars == <<running, state, since, rec_started, no_app_polls, pc, app_counter>>
observerVars == <<active, ev, n_start, n_stop, last_event, run, run_len, left, stopped>>
mcpVars == <<m_rec, m_frames, m_started, m_processing, m_last_result, m_last_error,
             m_pending>>
runVars == <<r_pc, r_clip, r_segs, r_diar, r_fail, r_saved, r_out, r_unlinks>>
procVars == <<p_pc, p_clip, p_unlinks>>
appVars == <<caller, a_state, a_rec, procVars, conv_capture, conv_runs>>
mergeVars == <<g_transcript, g_diar, g_merged>>
recVars == <<rc_recording, rc_stream, rc_frames, rc_leaked, rc_cb, rc_blk, rc_next,
             rc_stop, rc_was_active, rc_copy, rc_ret>>
lifeVars == <<op, chk, neg, warm>>
unitVars == <<mergeVars, recVars, lifeVars>>
vars == <<watcherVars, observerVars, mcpVars, runVars, appVars, unitVars>>

Min(a, b) == IF a < b THEN a ELSE b

\* (now - ts).total_seconds() after d more seconds; an unset timestamp stays unset
Age(a, d) == IF a = None THEN None ELSE Min(a + d, MaxAge)

\* a timestamp left over from a session that is over (start() does not clear
\* _rec_started): set, never read before it is overwritten, and only known to be old
Stale(a) == IF a = None THEN None ELSE MaxAge

\* elapsed = (now - self._since).total_seconds() if self._since else 0
Elapsed == IF since # None THEN since ELSE 0

\* duration = (now - self._rec_started).total_seconds() if self._rec_started else 0
Duration == IF rec_started # None THEN rec_started ELSE 0

Bump(n) == Min(n + 1, 2)

\* ---- the callbacks as the watcher sees them: an observed call ----
Emit(e) ==
    /\ ev' = e
    /\ last_event' = IF e = "none" THEN last_event ELSE e
    /\ n_start' = IF e = "start" THEN Bump(n_start) ELSE n_start
    /\ n_stop' = IF e = "stop" THEN Bump(n_stop) ELSE n_stop

\* ---- one iteration of MicWatcher._loop, by state ----
WarmupDone_Early == Elapsed >= WARMUP_SECS - 1

WarmupDone == Elapsed >= WARMUP_SECS

\* the false-positive branch of warming (mic went off) calls no callback
FalsePositiveEvent_Stop == "stop"

FalsePositiveEvent == "none"

TickIdle(t, a) ==
    /\ state = "idle"
    /\ IF a
       THEN /\ state' = "warming"
            /\ since' = 0
            /\ no_app_polls' = 0
            /\ ev' = "none" /\ last_event' = last_event
            /\ n_start' = 0 /\ n_stop' = 0
       ELSE /\ UNCHANGED <<state, since, no_app_polls>>
            /\ Emit("none")
    /\ UNCHANGED <<rec_started, app_counter, left>>

TickWarming(t, a) ==
    /\ state = "warming"
    /\ IF ~a
       THEN /\ state' = "idle"
            /\ since' = None
            /\ UNCHANGED <<rec_started, no_app_polls, app_counter>>
            /\ Emit(FalsePositiveEvent)
       ELSE IF WarmupDone
       THEN /\ rec_started' = 0
            /\ state' = "recording"
            /\ since' = 0
            /\ no_app_polls' = 0
            /\ app_counter' = [app_counter EXCEPT ![t] = APP_POLL_EVERY]
            /\ Emit("start")
       ELSE /\ UNCHANGED <<state, since, rec_started, no_app_polls, app_counter>>
            /\ Emit("none")
    /\ UNCHANGED left

\* if _app_counter >= APP_POLL_EVERY
CheckDue_Always(n) == TRUE

CheckDue(n) == n >= APP_POLL_EVERY

\* `self._no_app_polls = 0` of the app-gone transition
PollsWhenGone_Kept(n) == n

PollsWhenGone(n) == 0

\* if self._no_app_polls >= APP_GONE_POLLS
AppGone_Single(n) == n >= 1

AppGone(n) == n >= APP_GONE_POLLS

TickRecording(t, a, app) ==
    /\ state = "recording"
    /\ IF ~a
       THEN /\ state' = "cooling"
            /\ since' = 0
            /\ no_app_polls' = 0
            /\ left' = 0
            /\ UNCHANGED app_counter
       ELSE IF CheckDue(app_counter[t] + 1)
       THEN /\ app_counter' = [app_counter EXCEPT ![t] = 0]
            /\ IF app
               THEN /\ no_app_polls' = 0
                    /\ UNCHANGED <<state, since, left>>
               ELSE IF AppGone(no_app_polls + 1)
               THEN /\ state' = "cooling"
                    /\ since' = 0
                    /\ no_app_polls' = PollsWhenGone(no_app_polls + 1)
                    /\ left' = 0
               ELSE /\ no_app_polls' = no_app_polls + 1
                    /\ UNCHANGED <<state, since, left>>
       ELSE /\ app_counter' = [app_counter EXCEPT ![t] = app_counter[t] + 1]
            /\ UNCHANGED <<state, since, no_app_polls, left>>
    /\ UNCHANGED rec_started
    /\ Emit("none")

GraceDone_Late == Elapsed > GRACE_SECS

GraceDone == Elapsed >= GRACE_SECS

LongEnough_Grace == Duration >= GRACE_SECS

LongEnough_Strict == Duration > MIN_SAVE_SECS

LongEnough == Duration >= MIN_SAVE_SECS

\* the rejoin branch of cooling leaves self._rec_started as it is
RejoinStart_Reset(r) == 0

RejoinStart(r) == r

\* the rejoin branch of cooling calls no callback
RejoinEvent_Restart == "start"

RejoinEvent == "none"


TickCooling(t, a, app) ==
    /\ state = "cooling"
    /\ IF a /\ app
       THEN /\ state' = "recording"
            /\ since' = 0
            /\ no_app_polls' = 0
            /\ app_counter' = [app_counter EXCEPT ![t] = APP_POLL_EVERY]
            /\ left' = None
            /\ rec_started' = RejoinStart(rec_started)
            /\ Emit(RejoinEvent)
       ELSE IF GraceDone
       THEN /\ state' = "idle"
            /\ since' = None
            /\ rec_started' = None
            /\ no_app_polls' = 0
            /\ left' = None
            /\ UNCHANGED app_counter
            /\ IF LongEnough THEN Emit("stop") ELSE Emit("none")
       ELSE /\ UNCHANGED <<state, since, rec_started, no_app_polls, app_counter, left>>
            /\ Emit("none")

\* the run of consecutive mic-active ticks, as an observer of the ticks measures it
ObserveRun(a) ==
    /\ run' = IF ~a THEN None
              ELSE IF run = None THEN (IF state = "idle" THEN 0 ELSE None)
              ELSE run
    /\ run_len' = run'

LoopBody(t, a, app) ==
    \/ TickIdle(t, a)
    \/ TickWarming(t, a)
    \/ TickRecording(t, a, app)
    \/ TickCooling(t, a, app)

\* ---- actions ----

\* `if self._running: return` of start()
ReturnAtOnce_Reset ==
    /\ state' = "idle"
    /\ since' = None
    /\ no_app_polls' = 0
    /\ UNCHANGED <<running, rec_started, pc, left, ev, n_start, n_stop, last_event>>

ReturnAtOnce ==
    UNCHANGED <<running, state, since, rec_started, no_app_polls, pc, left,
                ev, n_start, n_stop, last_event>>

\* `self._since = None` of start()
SinceAtStart_Kept(s) == s

SinceAtStart(s) == None

\* the loop threads that have not ended
Alive == {t \in Threads : pc[t] # "dead"}

\* MicWatcher.start(), with at most cap loop threads followed: the new thread
\* is started whether or not an earlier one has ended
StartWith(cap) ==
    /\ UNCHANGED <<app_counter, active, run, run_len, stopped>>
    /\ IF running
       THEN ReturnAtOnce
       ELSE /\ Cardinality(Alive) < cap
            /\ running' = TRUE
            /\ rec_started' = Stale(rec_started)
            /\ left' = None
            /\ state' = "idle"
            /\ since' = SinceAtStart(since)
            /\ no_app_polls' = 0
            /\ LET t == CHOOSE u \in Threads : pc[u] = "dead" /\ \A v \in Threads : pc[v] = "dead" => u <= v
               IN pc' = [pc EXCEPT ![t] = "ready"]
            /\ Emit("none")

Start == StartWith(MaxThreads)

\* stop() calls no callback
StopEvent_Ended == "stop"

StopEvent == "none"

\* the loop threads stop() can find between `while self._running` and the
\* end of the iteration
MidIteration == {t \in Threads : pc[t] = "ready" /\ running}

\* MicWatcher.stop(): clears the flag and returns; it joins no thread.  A
\* thread that had already passed the test of the flag goes on with its
\* iteration.
Stop ==
    /\ running' = FALSE
    /\ stopped' = TRUE
    /\ \E S \in SUBSET MidIteration :
          pc' = [t \in Threads |-> IF t \in S THEN "body" ELSE pc[t]]
    /\ UNCHANGED <<state, since, rec_started, no_app_polls, app_counter>>
    /\ UNCHANGED <<active, run, run_len, left>>
    /\ Emit(StopEvent)

\* `while self._running:` found false: the loop thread ends
LoopExit(t) ==
    /\ pc[t] = "ready"
    /\ ~running
    /\ pc' = [pc EXCEPT ![t] = "dead"]
    /\ app_counter' = [app_counter EXCEPT ![t] = 0]
    /\ UNCHANGED <<running, state, since, rec_started, no_app_polls>>
    /\ UNCHANGED <<active, run, run_len, left, stopped>>
    /\ Emit("none")

\* `while self._running:` found true by thread t
Entered_Regardless(t) == pc[t] \in {"ready", "body"}

Entered(t) == (pc[t] = "ready" /\ running) \/ pc[t] = "body"

\* one iteration of the loop body, up to time.sleep(POLL_SECS): a is what
\* is_mic_in_use() returns, app what is_meeting_app_running() returns if called
IterationWith(t, a, app) ==
    /\ Entered(t)
    /\ LoopBody(t, a, app)
    /\ active' = a
    /\ ObserveRun(a)
    /\ UNCHANGED <<running, stopped>>

Iteration(t) == \E a \in BOOLEAN, app \in BOOLEAN : IterationWith(t, a, app)

\* an iteration whose callback (if any) returns: the thread goes to sleep
Tick(t) ==
    /\ Iteration(t)
    /\ pc' = [pc EXCEPT ![t] = "sleep"]

\* time passes: every live loop thread is in time.sleep(POLL_SECS) (or in a slow
\* call of its iteration) and wakes d >= POLL_SECS seconds later
SessionOpen == state \in {"recording", "cooling"}

Elapse(d) ==
    /\ \A t \in Threads : pc[t] \notin {"ready", "body"}
    /\ \E t \in Threads : pc[t] = "sleep"
    /\ state # "idle" => since + d <= MaxAge
    /\ SessionOpen => rec_started + d <= MaxAge
    /\ since' = Age(since, d)
    /\ rec_started' = IF SessionOpen THEN Age(rec_started, d) ELSE Stale(rec_started)
    /\ left' = Age(left, d)
    /\ run' = IF run = None THEN None ELSE Min(run + d, WARMUP_SECS)
    /\ pc' = [t \in Threads |-> IF pc[t] = "sleep" THEN "ready" ELSE pc[t]]
    /\ UNCHANGED <<running, state, no_app_polls, app_counter, active, run_len, stopped>>
    /\ Emit("none")

\* the closer observers before anything has happened
LifeIdle ==
    /\ op = "-"
    /\ chk = "none"
    /\ neg = 0
    /\ warm = FALSE

\* the iteration of thread t calls is_meeting_app_running(): in Active every
\* APP_POLL_EVERY-th poll with the mic active, in Cooling when the mic is active
ChecksApp(t, a) ==
    \/ state = "recording" /\ a /\ CheckDue(app_counter[t] + 1)
    \/ state = "cooling" /\ a

\* what an observer of the iteration's calls records
ObserveChecks(t, a, app) ==
    /\ op' = "-"
    /\ chk' = IF ChecksApp(t, a) THEN (IF app THEN "pos" ELSE "neg") ELSE "none"
    /\ neg' = IF ev' = "start" \/ chk' = "pos" THEN 0
              ELSE IF chk' = "neg" THEN Min(neg + 1, APP_GONE_POLLS)
              ELSE neg
    /\ warm' = IF ~a \/ chk' = "pos" THEN FALSE
               ELSE IF ev' = "stop" THEN TRUE
               ELSE warm

WatcherInit ==
    /\ running = FALSE
    /\ state = "idle"
    /\ since = None
    /\ rec_started = None
    /\ no_app_polls = 0
    /\ pc = [t \in Threads |-> "dead"]
    /\ app_counter = [t \in Threads |-> 0]
    /\ active = FALSE
    /\ ev = "none"
    /\ n_start = 0
    /\ n_stop = 0
    /\ last_event = "none"
    /\ run = None
    /\ run_len = None
    /\ left = None
    /\ stopped = FALSE


\* ======================= mcp_server.py =======================

RunIds == 1..MaxRuns
NotSaved == <<"-">>
Labels == {"unset", "spk", "Unknown"}

McpInit ==
    /\ m_rec = "none"
    /\ m_frames = 0
    /\ m_started = FALSE
    /\ m_processing = FALSE
    /\ m_last_result = 0
    /\ m_last_error = 0
    /\ m_pending = 0
    /\ r_pc = [r \in RunIds |-> "unborn"]
    /\ r_clip = [r \in RunIds |-> "none"]
    /\ r_segs = [r \in RunIds |-> <<>>]
    /\ r_diar = [r \in RunIds |-> "none"]
    /\ r_fail = [r \in RunIds |-> "none"]
    /\ r_saved = [r \in RunIds |-> NotSaved]
    /\ r_out = [r \in RunIds |-> "none"]
    /\ r_unlinks = [r \in RunIds |-> 0]

\* _recorder and _recorder.is_recording
McpIsRecording == m_rec # "none"

\* start_recording(): ok is whether Recorder.start() opens the input stream
McpStartRecording(ok) ==
    /\ IF McpIsRecording
       THEN UNCHANGED <<m_rec, m_frames, m_started>>
       ELSE /\ m_rec' = IF ok THEN "recording" ELSE "broken"
            /\ m_frames' = 0
            /\ m_started' = (m_started \/ ok)
    /\ UNCHANGED <<m_processing, m_last_result, m_last_error, m_pending, runVars>>

\* Recorder._callback: the audio subsystem delivers a block
AudioCallback ==
    /\ m_rec = "recording"
    /\ m_frames < MaxFrames
    /\ m_frames' = m_frames + 1
    /\ UNCHANGED <<m_rec, m_started, m_processing, m_last_result, m_last_error,
                   m_pending, runVars>>

\* the run a new clip gets: the first slot no run occupies
FreeRuns == {r \in RunIds : r_pc[r] = "unborn" /\ r_clip[r] = "none"}

NewRun == CHOOSE r \in FreeRuns : \A q \in FreeRuns : r <= q

\* stop_recording(), the section under _state_lock (and the test of audio_path)
StopRecordingLocked ==
    /\ m_pending = 0
    /\ IF ~McpIsRecording
       THEN UNCHANGED <<m_rec, m_frames, m_pending, r_clip>>
       ELSE /\ m_rec' = "none"
            /\ m_frames' = 0
            /\ IF m_frames = 0
               THEN UNCHANGED <<m_pending, r_clip>>
               ELSE /\ FreeRuns # {}
                    /\ m_pending' = NewRun
                    /\ r_clip' = [r_clip EXCEPT ![NewRun] = "exists"]
    /\ UNCHANGED <<m_started, m_processing, m_last_result, m_last_error,
                   r_pc, r_segs, r_diar, r_fail, r_saved, r_out, r_unlinks>>

\* stop_recording(), after the lock is released and the meeting name resolved:
\* the three status writes and thread.start()
StopRecordingSubmit ==
    /\ m_pending # 0
    /\ m_processing' = TRUE
    /\ m_last_result' = 0
    /\ m_last_error' = 0
    /\ r_pc' = [r_pc EXCEPT ![m_pending] = "transcribe"]
    /\ m_pending' = 0
    /\ UNCHANGED <<m_rec, m_frames, m_started,
                   r_clip, r_segs, r_diar, r_fail, r_saved, r_out, r_unlinks>>

\* recording_status()
RecordingStatus ==
    IF McpIsRecording /\ m_started THEN "recording"
    ELSE IF m_processing THEN "processing"
    ELSE IF m_last_error # 0 THEN "failed"
    ELSE IF m_last_result # 0 THEN "complete"
    ELSE "idle"

\* get_last_transcript()
GetLastTranscript ==
    IF m_processing THEN "processing"
    ELSE IF m_last_error # 0 THEN "failed"
    ELSE IF m_last_result # 0 THEN "result"
    ELSE "none"

\* ---- _process_audio ----
\* what diarize returns: turns that overlap the segments ("spk"), turns that
\* do not ("far"), turns merge cannot read ("bad")
Turns == UNION {[1..n -> {"spk", "far", "bad"}] : n \in 0..MaxTurns}

Unlabelled(n) == [i \in 1..n |-> "unset"]

\* diarizer.merge as the pipeline sees it: the labels of the segments when it
\* returns or raises.  A malformed turn raises in the inner loop of the first
\* segment, before any seg["speaker"] is assigned.
MergeLabels_Partial(segs, turns) ==
    IF \E j \in DOMAIN turns : turns[j] = "bad"
    THEN [raised |-> TRUE, segs |-> [segs EXCEPT ![1] = "Unknown"]]
    ELSE [raised |-> FALSE,
          segs |-> [i \in DOMAIN segs |->
                      IF \E j \in DOMAIN turns : turns[j] = "spk" THEN "spk" ELSE "Unknown"]]

MergeLabels(segs, turns) ==
    IF \E j \in DOMAIN turns : turns[j] = "bad"
    THEN [raised |-> TRUE, segs |-> segs]
    ELSE [raised |-> FALSE,
          segs |-> [i \in DOMAIN segs |->
                      IF \E j \in DOMAIN turns : turns[j] = "spk" THEN "spk" ELSE "Unknown"]]

\* segments = transcriber.transcribe(audio_path)
RunTranscribe(r) ==
    /\ r_pc[r] = "transcribe"
    /\ \E ok \in BOOLEAN, n \in 0..MaxSegs :
          IF ok
          THEN /\ r_segs' = [r_segs EXCEPT ![r] = Unlabelled(n)]
               /\ r_pc' = [r_pc EXCEPT ![r] = "diarize"]
               /\ UNCHANGED r_fail
          ELSE /\ n = 0
               /\ r_fail' = [r_fail EXCEPT ![r] = "transcribe"]
               /\ r_pc' = [r_pc EXCEPT ![r] = "except"]
               /\ UNCHANGED r_segs
    /\ UNCHANGED <<mcpVars, r_clip, r_diar, r_saved, r_out, r_unlinks>>

\* _read_hf_token(): no token, a token, or the token file cannot be read
\* (read_text raises)
Tokens == {"none", "set", "unreadable"}

\* audio_path.unlink(missing_ok=True), called by run r
Unlink_Twice(r) ==
    /\ r_clip' = [r_clip EXCEPT ![r] = "deleted"]
    /\ r_unlinks' = [r_unlinks EXCEPT ![r] = @ + 2]

Unlink(r) ==
    /\ r_clip' = [r_clip EXCEPT ![r] = "deleted"]
    /\ r_unlinks' = [r_unlinks EXCEPT ![r] = @ + 1]

\* hf_token = _read_hf_token(), the block under `if hf_token and segments:`,
\* then audio_path.unlink(missing_ok=True); diar_ok is whether
\* diarizer.diarize returns, turns what it returns
RunDiarize(r) ==
    /\ r_pc[r] = "diarize"
    /\ \E token \in Tokens, diar_ok \in BOOLEAN, turns \in Turns :
          IF token = "unreadable"
          THEN /\ diar_ok /\ turns = <<>>
               /\ r_fail' = [r_fail EXCEPT ![r] = "token"]
               /\ r_pc' = [r_pc EXCEPT ![r] = "except"]
               /\ UNCHANGED <<r_segs, r_diar, r_clip, r_unlinks>>
          ELSE /\ IF token = "set" /\ r_segs[r] # <<>>
                  THEN IF diar_ok
                       THEN LET res == MergeLabels(r_segs[r], turns)
                            IN /\ r_segs' = [r_segs EXCEPT ![r] = res.segs]
                               /\ r_diar' = [r_diar EXCEPT ![r] =
                                                IF res.raised THEN "failed" ELSE "ok"]
                       ELSE /\ turns = <<>>
                            /\ r_diar' = [r_diar EXCEPT ![r] = "failed"]
                            /\ UNCHANGED r_segs
                  ELSE /\ diar_ok /\ turns = <<>>
                       /\ r_diar' = [r_diar EXCEPT ![r] = "skipped"]
                       /\ UNCHANGED r_segs
               /\ Unlink(r)
               /\ r_pc' = [r_pc EXCEPT ![r] = "save"]
               /\ UNCHANGED r_fail
    /\ UNCHANGED <<mcpVars, r_saved, r_out>>

\* format_transcript, get_transcript_path, save_transcript; ok is whether
\* they all return
RunSave(r) ==
    /\ r_pc[r] = "save"
    /\ \E ok \in BOOLEAN :
          IF ok
          THEN /\ r_saved' = [r_saved EXCEPT ![r] = r_segs[r]]
               /\ r_pc' = [r_pc EXCEPT ![r] = "result"]
               /\ UNCHANGED r_fail
          ELSE /\ r_fail' = [r_fail EXCEPT ![r] = "save"]
               /\ r_pc' = [r_pc EXCEPT ![r] = "except"]
               /\ UNCHANGED r_saved
    /\ UNCHANGED <<mcpVars, r_clip, r_segs, r_diar, r_out, r_unlinks>>

\* _last_result = f"Saved: ..."
RunResult(r) ==
    /\ r_pc[r] = "result"
    /\ m_last_result' = r
    /\ r_out' = [r_out EXCEPT ![r] = "done"]
    /\ r_pc' = [r_pc EXCEPT ![r] = "finally"]
    /\ UNCHANGED <<m_rec, m_frames, m_started, m_processing, m_last_error, m_pending,
                   r_clip, r_segs, r_diar, r_fail, r_saved, r_unlinks>>

\* except Exception as e: audio_path.unlink(missing_ok=True); _last_error = str(e)
RunExcept(r) ==
    /\ r_pc[r] = "except"
    /\ Unlink(r)
    /\ m_last_error' = r
    /\ r_out' = [r_out EXCEPT ![r] = "failed"]
    /\ r_pc' = [r_pc EXCEPT ![r] = "finally"]
    /\ UNCHANGED <<m_rec, m_frames, m_started, m_processing, m_last_result, m_pending,
                   r_segs, r_diar, r_fail, r_saved>>

\* finally: _processing = False; the thread returns, and what was followed
\* of the run is dropped
RunFinally(r) ==
    /\ r_pc[r] = "finally"
    /\ m_processing' = FALSE
    /\ r_pc' = [r_pc EXCEPT ![r] = "unborn"]
    /\ r_clip' = [r_clip EXCEPT ![r] = "none"]
    /\ r_segs' = [r_segs EXCEPT ![r] = <<>>]
    /\ r_diar' = [r_diar EXCEPT ![r] = "none"]
    /\ r_fail' = [r_fail EXCEPT ![r] = "none"]
    /\ r_saved' = [r_saved EXCEPT ![r] = NotSaved]
    /\ r_out' = [r_out EXCEPT ![r] = "none"]
    /\ r_unlinks' = [r_unlinks EXCEPT ![r] = 0]
    /\ UNCHANGED <<m_rec, m_frames, m_started, m_last_result, m_last_error, m_pending>>


\* ======================= menu_bar.py, cli.py watch =======================

\* the callers' variables when no caller is attached to the watcher
AppIdle ==
    /\ caller = "none"
    /\ a_state = "idle"
    /\ a_rec = "none"
    /\ p_pc = "none"
    /\ p_clip = "none"
    /\ p_unlinks = 0
    /\ conv_capture = "none"
    /\ conv_runs = 0

\* TrnscrbApp.__init__ (auto_record off or on) / watch() up to watcher.start()
AppInit ==
    /\ caller \in {"menu", "headless"}
    /\ a_state = "idle"
    /\ a_rec = "none"
    /\ p_pc = "none"
    /\ p_clip = "none"
    /\ p_unlinks = 0
    /\ conv_capture = "none"
    /\ conv_runs = 0
    /\ running \in (IF caller = "menu" THEN BOOLEAN ELSE {TRUE})
    /\ state = "idle"
    /\ since = None
    /\ rec_started = None
    /\ no_app_polls = 0
    /\ pc = [t \in Threads |-> IF t = 1 /\ running THEN "ready" ELSE "dead"]
    /\ app_counter = [t \in Threads |-> 0]
    /\ active = FALSE
    /\ ev = "none"
    /\ n_start = 0
    /\ n_stop = 0
    /\ last_event = "none"
    /\ run = None
    /\ run_len = None
    /\ left = None
    /\ stopped = FALSE

\* self._recorder and self._recorder.is_recording
AppIsRecording == a_rec # "none"

\* TrnscrbApp._do_start: ok is whether Recorder.start() opens the stream; when
\* it raises, _set_state("recording") is not reached
DoStart(ok) ==
    /\ a_rec' = IF ok THEN "recording" ELSE "broken"
    /\ a_state' = IF ok THEN "recording" ELSE a_state

\* TrnscrbApp._do_stop: the recorder goes to a new _process thread
DoStop ==
    /\ a_rec' = "none"
    /\ a_state' = "transcribing"
    /\ p_pc' = "stop"
    /\ p_clip' = "none"
    /\ p_unlinks' = 0

\* the guard of TrnscrbApp._auto_start
AutoStartIgnored_Never == FALSE

AutoStartIgnored == a_state \in {"recording", "transcribing"}

\* TrnscrbApp._auto_start(meeting_name), called by the loop thread t
AutoStart(t, ok) ==
    /\ IF AutoStartIgnored
       THEN /\ ok
            /\ UNCHANGED <<a_state, a_rec>>
            /\ conv_capture' = "ignored"
            /\ pc' = [pc EXCEPT ![t] = "sleep"]
       ELSE /\ DoStart(ok)
            /\ conv_capture' = IF ok THEN "started" ELSE "none"
            /\ pc' = [pc EXCEPT ![t] = IF ok THEN "sleep" ELSE "dead"]
    /\ conv_runs' = 0
    /\ UNCHANGED <<caller, procVars>>

\* TrnscrbApp._auto_stop(), called by the loop thread t
AutoStop(t) ==
    /\ IF AppIsRecording
       THEN /\ DoStop
            /\ conv_runs' = Bump(conv_runs)
       ELSE UNCHANGED <<a_state, a_rec, procVars, conv_runs>>
    /\ pc' = [pc EXCEPT ![t] = "sleep"]
    /\ UNCHANGED <<caller, conv_capture>>

\* watch.on_start(meeting_name): a new Recorder replaces the reference, whatever
\* it held; when r.start() raises the reference is not replaced
HeadlessStart(t, ok) ==
    /\ IF ok
       THEN a_rec' = "recording" /\ conv_capture' = "started"
       ELSE UNCHANGED a_rec /\ conv_capture' = "none"
    /\ pc' = [pc EXCEPT ![t] = IF ok THEN "sleep" ELSE "dead"]
    /\ conv_runs' = 0
    /\ UNCHANGED <<caller, a_state, procVars>>

\* the outcomes of the pipeline from recorder.stop() on: no frames captured;
\* transcribe raises; reading the token file raises; all of it returns;
\* formatting or saving raises
Outcomes == {"no_audio", "failed", "token", "saved", "raised"}

\* the outcomes whose exception no except block of the pipeline catches
Escapes(out) == out \in {"token", "raised"}

\* the pipeline of watch.on_stop from r.stop() on, run in the calling thread
HeadlessPipeline(out) ==
    /\ p_clip' = CASE out = "no_audio" -> "none"
                  [] out = "token" -> "exists"
                  [] OTHER -> "deleted"
    /\ p_unlinks' = IF out \in {"no_audio", "token"} THEN 0 ELSE 1
    /\ UNCHANGED p_pc

\* "if not r: return" of watch.on_stop
NoRecorder_Always == TRUE

NoRecorder == a_rec = "none"

\* watch.on_stop(), called by the loop thread t: the reference is cleared
\* and, unless it was None, the pipeline begins in that thread
HeadlessStop(t) ==
    /\ a_rec' = "none"
    /\ IF NoRecorder
       THEN /\ UNCHANGED <<conv_runs, procVars>>
            /\ pc' = [pc EXCEPT ![t] = "sleep"]
       ELSE /\ conv_runs' = Bump(conv_runs)
            /\ p_clip' = "none"
            /\ p_unlinks' = 0
            /\ UNCHANGED p_pc
            /\ pc' = [pc EXCEPT ![t] = "callback"]
    /\ UNCHANGED <<caller, a_state, conv_capture>>

\* watch.on_stop() returns to the loop of thread t, or an exception leaves
\* it and ends the thread
HeadlessStopReturn(t) ==
    /\ caller = "headless"
    /\ pc[t] = "callback"
    /\ \E out \in Outcomes :
          /\ HeadlessPipeline(out)
          /\ pc' = [pc EXCEPT ![t] = IF Escapes(out) THEN "dead" ELSE "sleep"]
    /\ UNCHANGED <<running, state, since, rec_started, no_app_polls, app_counter>>
    /\ UNCHANGED <<observerVars, caller, a_state, a_rec, conv_capture, conv_runs>>

\* one iteration of the loop with the caller's callback run inside it
AppTick(t) ==
    /\ caller \in {"menu", "headless"}
    /\ Iteration(t)
    /\ IF ev' = "start"
       THEN \E ok \in BOOLEAN :
              IF caller = "menu" THEN AutoStart(t, ok) ELSE HeadlessStart(t, ok)
       ELSE IF ev' = "stop"
       THEN IF caller = "menu" THEN AutoStop(t) ELSE HeadlessStop(t)
       ELSE /\ pc' = [pc EXCEPT ![t] = "sleep"]
            /\ UNCHANGED appVars

\* TrnscrbApp.start_recording: the menu item is enabled in idle and watching
MenuStartClick ==
    /\ caller = "menu"
    /\ a_state \in {"idle", "watching"}
    /\ IF AppIsRecording
       THEN UNCHANGED <<a_state, a_rec>>
       ELSE \E ok \in BOOLEAN : DoStart(ok)
    /\ UNCHANGED <<caller, procVars, conv_capture, conv_runs>>

\* TrnscrbApp.stop_recording: the menu item is enabled in recording
MenuStopClick ==
    /\ caller = "menu"
    /\ a_state = "recording"
    /\ IF AppIsRecording
       THEN /\ DoStop
            /\ conv_capture' = IF conv_capture = "started" THEN "taken" ELSE conv_capture
       ELSE UNCHANGED <<a_state, a_rec, procVars, conv_capture>>
    /\ UNCHANGED <<caller, conv_runs>>

\* TrnscrbApp.toggle_auto_record: stops the watcher, or makes and starts a new
\* MicWatcher (the stopped one's thread has left its loop)
ToggleAutoRecord ==
    /\ caller = "menu"
    /\ IF running
       THEN /\ Stop
       ELSE /\ \A t \in Threads : pc[t] = "dead"
            /\ running' = TRUE
            /\ state' = "idle"
            /\ since' = None
            /\ rec_started' = None
            /\ no_app_polls' = 0
            /\ pc' = [pc EXCEPT ![1] = "ready"]
            /\ left' = None
            /\ Emit("none")
            /\ UNCHANGED <<app_counter, active, run, run_len, stopped>>
    /\ UNCHANGED appVars

\* TrnscrbApp._restore_idle
RestoredState == IF running THEN "watching" ELSE "idle"

\* TrnscrbApp._process: audio_path = recorder.stop(), and the no-audio return
ProcessStop ==
    /\ p_pc = "stop"
    /\ \E audio \in BOOLEAN :
          IF audio
          THEN /\ p_pc' = "transcribe"
               /\ p_clip' = "exists"
               /\ UNCHANGED a_state
          ELSE /\ p_pc' = "none"
               /\ a_state' = RestoredState
               /\ UNCHANGED p_clip
    /\ UNCHANGED <<caller, a_rec, p_unlinks, conv_capture, conv_runs>>

\* audio_path.unlink(missing_ok=True), called by TrnscrbApp._process
ProcessUnlink ==
    /\ p_clip' = "deleted"
    /\ p_unlinks' = p_unlinks + 1

\* TrnscrbApp._process: transcriber.transcribe and its except block
ProcessTranscribe ==
    /\ p_pc = "transcribe"
    /\ \E ok \in BOOLEAN :
          IF ok
          THEN /\ p_pc' = "diarize"
               /\ UNCHANGED <<p_clip, p_unlinks, a_state>>
          ELSE /\ ProcessUnlink
               /\ p_pc' = "none"
               /\ a_state' = RestoredState
    /\ UNCHANGED <<caller, a_rec, conv_capture, conv_runs>>

\* TrnscrbApp._process: hf_token = _read_hf_token(), outside any try; the
\* diarize/merge block, whose exceptions are passed over; audio_path.unlink
ProcessDiarize ==
    /\ p_pc = "diarize"
    /\ \E token \in Tokens :
          IF token = "unreadable"
          THEN /\ p_pc' = "crashed"
               /\ UNCHANGED <<p_clip, p_unlinks>>
          ELSE /\ ProcessUnlink
               /\ p_pc' = "save"
    /\ UNCHANGED <<caller, a_state, a_rec, conv_capture, conv_runs>>

\* TrnscrbApp._process: format, save, _restore_idle; an exception of the
\* formatting or saving ends the thread before _restore_idle
ProcessSave ==
    /\ p_pc = "save"
    /\ \E ok \in BOOLEAN :
          IF ok
          THEN /\ p_pc' = "none"
               /\ a_state' = RestoredState
          ELSE /\ p_pc' = "crashed"
               /\ UNCHANGED a_state
    /\ UNCHANGED <<caller, a_rec, p_clip, p_unlinks, conv_capture, conv_runs>>

\* watch._shutdown (SIGINT/SIGTERM): watcher.stop(), on_stop() for a recorder
\* still referenced, SystemExit
Shutdown ==
    /\ caller = "headless"
    /\ caller' = "exited"
    /\ Stop
    /\ a_rec' = "none"
    /\ IF NoRecorder
       THEN UNCHANGED procVars
       ELSE \E out \in Outcomes : HeadlessPipeline(out)
    /\ UNCHANGED <<a_state, conv_capture, conv_runs>>

\* ======================= diarizer.py: merge =======================

Speakers == {"A", "B"}

\* a segment or turn spans a positive time within 0..MaxTime
Spans == {sp \in (0..MaxTime) \X (0..MaxTime) : sp[1] < sp[2]}

\* the segments transcribe returns: "speaker": None
Segments == {[start |-> sp[1], end |-> sp[2], speaker |-> "unset"] : sp \in Spans}

\* the turns diarize returns
DiarTurns == {[start |-> sp[1], end |-> sp[2], speaker |-> k] : sp \in Spans, k \in Speakers}

SeqsUpTo(S, n) == UNION {[1..k -> S] : k \in 0..n}

\* overlap = min(seg["end"], d["end"]) - max(seg["start"], d["start"])
Overlap(seg, d) ==
    Min(seg.end, d.end) - (IF seg.start >= d.start THEN seg.start ELSE d.start)

\* best_overlap = 0.0
StartOverlap_Negative == 0 - 1

StartOverlap == 0

\* if overlap > best_overlap
Better_OrEqual(overlap, best) == overlap >= best

Better(overlap, best) == overlap > best

\* the inner loop `for d in diarization` over the first n turns: the pair
\* (best_speaker, best_overlap) it leaves, best_speaker "unset" for None
RECURSIVE BestAfter(_, _, _)
BestAfter(seg, diar, n) ==
    IF n = 0
    THEN [speaker |-> "unset", overlap |-> StartOverlap]
    ELSE LET prev == BestAfter(seg, diar, n - 1)
             ov == Overlap(seg, diar[n])
         IN IF Better(ov, prev.overlap)
            THEN [speaker |-> diar[n].speaker, overlap |-> ov]
            ELSE prev

\* seg["speaker"] = best_speaker or "Unknown"
SpeakerOr(best) == IF best = "unset" THEN "Unknown" ELSE best

\* merge(transcript, diarization)
Merge(transcript, diar) ==
    [i \in DOMAIN transcript |->
        [transcript[i] EXCEPT
            !.speaker = SpeakerOr(BestAfter(transcript[i], diar, Len(diar)).speaker)]]

MergeIdle ==
    /\ g_transcript = <<>>
    /\ g_diar = <<>>
    /\ g_merged = FALSE

\* the arguments of a call of merge
MergeInit ==
    /\ g_transcript \in SeqsUpTo(Segments, MaxSegs)
    /\ g_diar \in SeqsUpTo(DiarTurns, MaxDiar)
    /\ g_merged = FALSE

MergeCall ==
    /\ ~g_merged
    /\ g_transcript' = Merge(g_transcript, g_diar)
    /\ g_merged' = TRUE
    /\ UNCHANGED g_diar

\* ======================= recorder.py: Recorder =======================

StreamIds == {"cur", "old"}

\* Recorder.__init__
RecInit ==
    /\ rc_recording = FALSE
    /\ rc_stream = "none"
    /\ rc_frames = <<>>
    /\ rc_leaked = 0
    /\ rc_cb = [s \in StreamIds |-> "idle"]
    /\ rc_blk = [s \in StreamIds |-> 0]
    /\ rc_next = 0
    /\ rc_stop = "none"
    /\ rc_was_active = FALSE
    /\ rc_copy = <<>>
    /\ rc_ret = "-"

\* Recorder.start(): ok is whether sd.InputStream(...) and its start() return.
\* The stream self._stream referred to is neither stopped nor closed; a
\* callback of it that is still running goes on in its own thread.
Pending(cb) == Cardinality({s \in StreamIds : cb[s] = "checked"})

RecStart(ok) ==
    /\ rc_stop \in {"none", "returned"}
    /\ rc_frames' = <<>>
    /\ rc_recording' = TRUE
    /\ IF ok /\ rc_stream = "open"
       THEN /\ rc_leaked < MaxLeaked
            /\ rc_cb["old"] = "idle"
            /\ rc_leaked' = rc_leaked + 1
            /\ rc_cb' = [cur |-> "idle", old |-> rc_cb["cur"]]
            /\ rc_blk' = [cur |-> 0, old |-> 0]
       ELSE /\ rc_blk' = [cur |-> IF rc_cb["cur"] = "checked" THEN Pending(rc_cb) ELSE 0,
                          old |-> 0]
            /\ UNCHANGED <<rc_leaked, rc_cb>>
    /\ rc_stream' = IF ok THEN "open" ELSE rc_stream
    /\ rc_next' = Pending(rc_cb)
    /\ rc_stop' = "none"
    /\ rc_was_active' = FALSE
    /\ rc_copy' = <<>>
    /\ rc_ret' = "-"

\* stream s is delivering blocks
Delivering(s) == IF s = "cur" THEN rc_stream = "open" ELSE rc_leaked > 0

\* Recorder._callback, `if self._recording:`
CbEnter(s) ==
    /\ Delivering(s)
    /\ rc_cb[s] = "idle"
    /\ rc_next < MaxBlocks
    /\ rc_next' = rc_next + 1
    /\ IF rc_recording
       THEN /\ rc_cb' = [rc_cb EXCEPT ![s] = "checked"]
            /\ rc_blk' = [rc_blk EXCEPT ![s] = IF s = "cur" THEN rc_next + 1 ELSE 0]
       ELSE UNCHANGED <<rc_cb, rc_blk>>
    /\ UNCHANGED <<rc_recording, rc_stream, rc_frames, rc_leaked, rc_stop, rc_was_active,
                   rc_copy, rc_ret>>

\* Recorder._callback, `with self._lock: self._frames.append(indata.copy())`
CbAppend(s) ==
    /\ rc_cb[s] = "checked"
    /\ rc_frames' = Append(rc_frames, rc_blk[s])
    /\ rc_cb' = [rc_cb EXCEPT ![s] = "idle"]
    /\ rc_blk' = [rc_blk EXCEPT ![s] = 0]
    /\ UNCHANGED <<rc_recording, rc_stream, rc_leaked, rc_next, rc_stop, rc_was_active,
                   rc_copy, rc_ret>>

\* Recorder.stop(): self._recording = False
StopFlag ==
    /\ rc_stop \in {"none", "returned"}
    /\ rc_was_active' = rc_recording
    /\ rc_recording' = FALSE
    /\ rc_stop' = "flagged"
    /\ rc_copy' = <<>>
    /\ rc_ret' = "-"
    /\ UNCHANGED <<rc_stream, rc_frames, rc_leaked, rc_cb, rc_blk, rc_next>>

\* self._stream = None, once the stream is stopped and closed
StreamAfterClose_Kept(st) == st

StreamAfterClose(st) == "none"

\* Recorder.stop(): self._stream.stop(); .close(); self._stream = None.
\* stop() of the stream returns once its callback is not running.
StopClose ==
    /\ rc_stop = "flagged"
    /\ rc_stream = "open" => rc_cb["cur"] = "idle"
    /\ rc_stream' = StreamAfterClose(rc_stream)
    /\ rc_stop' = "closed"
    /\ UNCHANGED <<rc_recording, rc_frames, rc_leaked, rc_cb, rc_blk, rc_next,
                   rc_was_active, rc_copy, rc_ret>>

\* Recorder.stop(): with self._lock: frames = list(self._frames)
StopCopy ==
    /\ rc_stop = "closed"
    /\ rc_copy' = rc_frames
    /\ rc_stop' = "copied"
    /\ UNCHANGED <<rc_recording, rc_stream, rc_frames, rc_leaked, rc_cb, rc_blk, rc_next,
                   rc_was_active, rc_ret>>

\* if not frames: return None
NoFrames_Never(frames) == FALSE

NoFrames(frames) == frames = <<>>

\* Recorder.stop(): the test of `frames`, np.concatenate (which raises on an
\* empty list), the quantization to int16, the temporary WAV file, return;
\* ok is whether the quantization and the writing go through
StopReturn ==
    /\ rc_stop = "copied"
    /\ \E ok \in BOOLEAN :
          rc_ret' = IF NoFrames(rc_copy) THEN "None"
                    ELSE IF rc_copy = <<>> \/ ~ok THEN "raised" ELSE "clip"
    /\ rc_stop' = "returned"
    /\ UNCHANGED <<rc_recording, rc_stream, rc_frames, rc_leaked, rc_cb, rc_blk, rc_next,
                   rc_was_active, rc_copy>>

Init == WatcherInit /\ McpInit /\ AppIdle /\ MergeIdle /\ RecInit /\ LifeIdle

\* the watcher on its own: the callbacks are observed, not handled
Next ==
    \/ Start /\ UNCHANGED <<mcpVars, runVars, appVars, unitVars>>
    \/ Stop /\ UNCHANGED <<mcpVars, runVars, appVars, unitVars>>
    \/ \E t \in Threads : LoopExit(t) /\ UNCHANGED <<mcpVars, runVars, appVars, unitVars>>
    \/ \E t \in Threads : Tick(t) /\ UNCHANGED <<mcpVars, runVars, appVars, unitVars>>
    \/ \E d \in POLL_SECS..MaxDelta : Elapse(d) /\ UNCHANGED <<mcpVars, runVars, appVars, unitVars>>

Spec == Init /\ [][Next]_vars

\* the watcher under closer observation: its calls and its app checks
otherThanWatch == <<mcpVars, runVars, appVars, mergeVars, recVars>>

WatchStart ==
    /\ op' = "start"
    /\ chk' = "none"
    /\ neg' = IF running THEN neg ELSE 0
    /\ warm' = IF running THEN warm ELSE FALSE
    /\ Start

WatchTick(t) ==
    \E a \in BOOLEAN, app \in BOOLEAN :
       /\ IterationWith(t, a, app)
       /\ pc' = [pc EXCEPT ![t] = "sleep"]
       /\ ObserveChecks(t, a, app)

Unobserved == op' = "-" /\ chk' = "none" /\ UNCHANGED <<neg, warm>>

WatchNext ==
    \/ WatchStart /\ UNCHANGED otherThanWatch
    \/ Stop /\ Unobserved /\ UNCHANGED otherThanWatch
    \/ \E t \in Threads : LoopExit(t) /\ Unobserved /\ UNCHANGED otherThanWatch
    \/ \E t \in Threads : WatchTick(t) /\ UNCHANGED otherThanWatch
    \/ \E d \in POLL_SECS..MaxDelta : Elapse(d) /\ Unobserved /\ UNCHANGED otherThanWatch

SpecWatch == Init /\ [][WatchNext]_vars

\* the watcher's start() and stop() called in any order while no conversation
\* takes place: the microphone is in use only for less than WARMUP_SECS at a
\* time, so that the watcher stays in Idle and Warming
ShortUse(a) == a => ~(state = "warming" /\ WarmupDone)

LoopsTick(t) ==
    \E a \in BOOLEAN :
       /\ ShortUse(a)
       /\ IterationWith(t, a, FALSE)
       /\ pc' = [pc EXCEPT ![t] = "sleep"]

LoopsNext ==
    \/ StartWith(MaxLoops) /\ UNCHANGED <<mcpVars, runVars, appVars, unitVars>>
    \/ Stop /\ UNCHANGED <<mcpVars, runVars, appVars, unitVars>>
    \/ \E t \in Threads : LoopExit(t) /\ UNCHANGED <<mcpVars, runVars, appVars, unitVars>>
    \/ \E t \in Threads : LoopsTick(t) /\ UNCHANGED <<mcpVars, runVars, appVars, unitVars>>
    \/ \E d \in POLL_SECS..MaxDelta : Elapse(d) /\ UNCHANGED <<mcpVars, runVars, appVars, unitVars>>

SpecLoops == Init /\ [][LoopsNext]_vars

\* the MCP server: tool calls and the background runs they start
McpNext ==
    \/ \E ok \in BOOLEAN : McpStartRecording(ok) /\ UNCHANGED <<watcherVars, observerVars, appVars, unitVars>>
    \/ AudioCallback /\ UNCHANGED <<watcherVars, observerVars, appVars, unitVars>>
    \/ StopRecordingLocked /\ UNCHANGED <<watcherVars, observerVars, appVars, unitVars>>
    \/ StopRecordingSubmit /\ UNCHANGED <<watcherVars, observerVars, appVars, unitVars>>
    \/ \E r \in RunIds : RunTranscribe(r) /\ UNCHANGED <<watcherVars, observerVars, appVars, unitVars>>
    \/ \E r \in RunIds : RunDiarize(r) /\ UNCHANGED <<watcherVars, observerVars, appVars, unitVars>>
    \/ \E r \in RunIds : RunSave(r) /\ UNCHANGED <<watcherVars, observerVars, appVars, unitVars>>
    \/ \E r \in RunIds : RunResult(r) /\ UNCHANGED <<watcherVars, observerVars, appVars, unitVars>>
    \/ \E r \in RunIds : RunExcept(r) /\ UNCHANGED <<watcherVars, observerVars, appVars, unitVars>>
    \/ \E r \in RunIds : RunFinally(r) /\ UNCHANGED <<watcherVars, observerVars, appVars, unitVars>>

SpecMcp == Init /\ [][McpNext]_vars

\* the watcher with a caller attached: the menu-bar app or the headless watch
AppNext ==
    \/ \E t \in Threads : AppTick(t) /\ UNCHANGED <<mcpVars, runVars, unitVars>>
    \/ \E t \in Threads : HeadlessStopReturn(t) /\ UNCHANGED <<mcpVars, runVars, unitVars>>
    \/ \E t \in Threads : caller # "exited" /\ LoopExit(t) /\ UNCHANGED <<mcpVars, runVars, appVars, unitVars>>
    \/ \E d \in POLL_SECS..MaxDelta : caller # "exited" /\ Elapse(d) /\ UNCHANGED <<mcpVars, runVars, appVars, unitVars>>
    \/ MenuStartClick /\ UNCHANGED <<watcherVars, observerVars, mcpVars, runVars, unitVars>>
    \/ MenuStopClick /\ UNCHANGED <<watcherVars, observerVars, mcpVars, runVars, unitVars>>
    \/ ToggleAutoRecord /\ UNCHANGED <<mcpVars, runVars, unitVars>>
    \/ ProcessStop /\ UNCHANGED <<watcherVars, observerVars, mcpVars, runVars, unitVars>>
    \/ ProcessTranscribe /\ UNCHANGED <<watcherVars, observerVars, mcpVars, runVars, unitVars>>
    \/ ProcessDiarize /\ UNCHANGED <<watcherVars, observerVars, mcpVars, runVars, unitVars>>
    \/ ProcessSave /\ UNCHANGED <<watcherVars, observerVars, mcpVars, runVars, unitVars>>
    \/ Shutdown /\ UNCHANGED <<mcpVars, runVars, unitVars>>

\* the state after TrnscrbApp.__init__ or after watch() has started its watcher
InitApp == AppInit /\ McpInit /\ MergeIdle /\ RecInit /\ LifeIdle

SpecApp == InitApp /\ [][AppNext]_vars

\* one call of merge, on any arguments within the bounds
InitMerge == WatcherInit /\ McpInit /\ AppIdle /\ MergeInit /\ RecInit /\ LifeIdle

MergeNext ==
    \/ MergeCall /\ UNCHANGED <<watcherVars, observerVars, mcpVars, runVars, appVars, recVars, lifeVars>>

SpecMerge == InitMerge /\ [][MergeNext]_vars

\* one Recorder, its caller and the audio threads of its streams
otherThanRec == <<watcherVars, observerVars, mcpVars, runVars, appVars, mergeVars, lifeVars>>

RecNext ==
    \/ \E ok \in BOOLEAN : RecStart(ok) /\ UNCHANGED otherThanRec
    \/ \E s \in StreamIds : CbEnter(s) /\ UNCHANGED otherThanRec
    \/ \E s \in StreamIds : CbAppend(s) /\ UNCHANGED otherThanRec
    \/ StopFlag /\ UNCHANGED otherThanRec
    \/ StopClose /\ UNCHANGED otherThanRec
    \/ StopCopy /\ UNCHANGED otherThanRec
    \/ StopReturn /\ UNCHANGED otherThanRec

SpecRec == Init /\ [][RecNext]_vars

\* ---- properties of the watcher ----

IsTick == \E t \in Threads : pc[t] \in {"ready", "body"} /\ pc'[t] = "sleep"

\* C1: debounce.  on_start is invoked only on a tick that finds the watcher
\* Warming with the mic active and at least WARMUP_SECS elapsed since Warming
\* was entered; and a mic-inactive tick that ends a run of mic-active ticks
\* (begun in Idle) shorter than WARMUP_SECS leaves the watcher Idle with no
\* on_start emitted in the traversal.
C1_Debounce ==
    [][ /\ ev' = "start" =>
            /\ IsTick
            /\ state = "warming" /\ state' = "recording"
            /\ active'
            /\ since # None /\ since >= WARMUP_SECS
        /\ (IsTick /\ ~active' /\ run_len # None /\ run_len < WARMUP_SECS) =>
            /\ state' = "idle"
            /\ n_start' = 0
            /\ ev' = "none" ]_vars

C1_Witness == ev = "start" /\ state = "recording" /\ active /\ run_len = WARMUP_SECS

\* C2 as stated: no on_stop when the Active duration (the moment Active was
\* left minus the moment it was first entered) is below MIN_SAVE_SECS.
C2_ActiveDuration ==
    [][ ev' = "stop" => (rec_started - left) >= MIN_SAVE_SECS ]_vars

\* C2 amended: no on_stop when the time from first entering Active to the
\* Cooling->Idle tick (the grace period included) is below MIN_SAVE_SECS;
\* the watcher still returns to Idle.
C2_SessionDuration ==
    [][ /\ ev' = "stop" => rec_started # None /\ rec_started >= MIN_SAVE_SECS
        /\ (IsTick /\ state = "cooling" /\ state' = "idle"
               /\ rec_started < MIN_SAVE_SECS) => ev' = "none" /\ n_stop' = 0 ]_vars

C2_Witness ==
    /\ state = "idle" /\ n_start = 1 /\ n_stop = 0
    /\ rec_started = None /\ ~stopped

SessionEnds == SessionOpen /\ state' = "idle"

\* C3 as stated: every traversal Idle -> ... -> Idle emits exactly one
\* on_start and at most one on_stop.
C3_ExactlyOneStart ==
    [][ (state # "idle" /\ state' = "idle") => n_start' = 1 /\ n_stop' <= 1 ]_vars

\* C3 amended: every traversal emits at most one on_start, exactly one when
\* it reached Active and none when it returned from Warming, and at most
\* one on_stop.
C3_AtMostOne ==
    [][ /\ n_start' <= 1 /\ n_stop' <= 1
        /\ (state = "warming" /\ state' = "idle") => n_start' = 0 /\ n_stop' = 0
        /\ SessionEnds => n_start' = 1 ]_vars

C3_Witness == state = "idle" /\ n_start = 1 /\ n_stop = 1

\* C4 as stated: a session that lasted MIN_SAVE_SECS or more gets exactly
\* one on_stop, whatever start()/stop() calls are interleaved.
C4_AnyStartStop ==
    [][ (SessionEnds /\ rec_started >= MIN_SAVE_SECS) => n_stop' = 1 ]_vars

\* C4 amended: on_stop is invoked only on the Cooling->Idle transition, and a
\* session that lasted MIN_SAVE_SECS or more gets exactly one on_stop, with
\* start() calls interleaved anywhere, provided stop() was not called.
C4_NoStop ==
    [][ /\ ev' = "stop" => IsTick /\ state = "cooling" /\ state' = "idle"
        /\ (SessionEnds /\ rec_started >= MIN_SAVE_SECS /\ ~stopped') =>
              ev' = "stop" /\ n_stop = 0 /\ n_stop' = 1 ]_vars

C4_Witness == ev = "stop" /\ ~stopped /\ n_stop = 1

\* C5 as stated: the callbacks strictly alternate, starting with on_start.
C5_StrictAlternation ==
    [][ /\ ev' = "start" => last_event # "start"
        /\ ev' = "stop" => last_event = "start" ]_vars

\* C5 amended: every on_stop is preceded by the on_start of the same session
\* with no other callback in between (an on_start may follow an on_start,
\* when the earlier session was dropped without on_stop).
C5_StopAfterStart ==
    [][ ev' = "stop" =>
          /\ last_event = "start"
          /\ n_start = 1 /\ n_stop = 0
          /\ SessionOpen ]_vars

C5_Witness == last_event = "stop" /\ state = "warming" /\ n_start = 0

\* ---- properties of the watcher's callers ----

\* the step is a loop iteration that calls on_stop
CallsOnStop ==
    ev' = "stop" /\ \E t \in Threads : pc[t] \in {"ready", "body"} /\ pc'[t] # pc[t]

\* C6 as stated: each conversation (a session with on_start and later
\* on_stop) drives exactly one pipeline run in the caller, never zero and
\* never two (conversations whose capture was stopped by hand left aside).
C6_ExactlyOneRun ==
    [][ (CallsOnStop /\ conv_capture # "taken") => conv_runs' = 1 ]_vars

\* C6 amended: each conversation drives at most one pipeline run: its on_stop
\* starts exactly one in the headless caller, and in the menu-bar caller one
\* when a recorder is recording at that moment and none otherwise, which is
\* when its on_start was ignored (the app was recording or transcribing) or
\* the capture it started was stopped by hand.
C6_AtMostOneRun ==
    [][ CallsOnStop =>
          /\ conv_runs = 0 /\ conv_runs' <= 1
          /\ caller = "headless" => conv_runs' = 1 /\ conv_capture = "started"
          /\ caller = "menu" => (conv_runs' = 1 <=> AppIsRecording)
          /\ (caller = "menu" /\ conv_capture = "started") => conv_runs' = 1
          /\ conv_runs' = 0 => conv_capture \in {"ignored", "taken"} ]_vars

C6_Witness == ev = "stop" /\ caller = "menu" /\ conv_runs = 0 /\ conv_capture = "ignored"

\* ---- properties of the MCP server's pipeline ----

InFlight(r) == r_pc[r] # "unborn"

\* the run has a clip (stop_recording stopped the recorder with audio) and
\* has not finished
Submitted(r) == r_clip[r] # "none"

\* C7: at most one pipeline run is in flight at any time (a submit while a
\* run is Processing starts no second background run).
C7_SingleSlot == Cardinality({r \in RunIds : InFlight(r)}) <= 1

\* C8: from the moment stop_recording has stopped the recorder with a
\* non-empty clip until that run finishes, get_last_transcript reports
\* Processing and recording_status reports Processing (or a new recording),
\* never Idle nor an earlier run's result or error.
C8_ProcessingUntilDone ==
    \A r \in RunIds : Submitted(r) =>
        /\ GetLastTranscript = "processing"
        /\ RecordingStatus \in {"processing", "recording"}

Finishes(r) == r_pc[r] = "finally" /\ r_pc'[r] = "unborn"

\* C9: a run whose transcription failed ends with the status Failed
\* (_last_error set, _last_result unset, _processing false), its clip
\* deleted, no diarization, formatting or persistence executed and no
\* transcript saved.
C9_TranscriptionFailureTerminal ==
    [][ \A r \in RunIds : (Finishes(r) /\ r_fail[r] = "transcribe") =>
          /\ m_last_error' # 0 /\ m_last_result' = 0 /\ ~m_processing'
          /\ r_clip[r] = "deleted"
          /\ r_diar[r] = "none"
          /\ r_saved[r] = NotSaved ]_vars

AllUnset(segs) == \A i \in DOMAIN segs : segs[i] = "unset"

\* C10: a failure of diarize or merge is not fatal: no label is set, the run
\* goes on to delete the clip, and (formatting and persisting succeeding)
\* it saves the transcript with every speaker label unset and ends Done.
C10_DiarizationNonFatal ==
    \A r \in RunIds : r_diar[r] = "failed" =>
        /\ AllUnset(r_segs[r])
        /\ r_fail[r] # "transcribe"
        /\ r_pc[r] \in {"save", "result", "except", "finally"}
        /\ r_clip[r] = "deleted"
        /\ r_pc[r] = "except" => r_fail[r] = "save"
        /\ (r_pc[r] \in {"result", "finally"} /\ r_fail[r] = "none") =>
              /\ r_saved[r] # NotSaved /\ AllUnset(r_saved[r])
              /\ Len(r_saved[r]) = Len(r_segs[r])
        /\ (r_pc[r] = "finally" /\ r_fail[r] = "none") => r_out[r] = "done"

C10_Witness ==
    \E r \in RunIds :
        /\ r_diar[r] = "failed" /\ r_pc[r] = "finally" /\ r_out[r] = "done"
        /\ Len(r_saved[r]) = MaxSegs /\ r_clip[r] = "deleted"

\* ---- properties of the pipeline runs (MCP server, menu bar, headless) ----

\* transcriber.transcribe has returned or raised in run r / in _process
Transcribed(r) == r_pc[r] \in {"diarize", "save", "result", "except", "finally"}

ProcessTranscribed == p_pc \in {"none", "diarize", "save", "crashed"}

\* C11 as stated: the clip delete operation happens only after the
\* transcription step has completed, and is performed at most once per run on
\* every path, the path where formatting or persistence fails after the clip
\* was deleted included.
C11_DeleteOnce ==
    /\ \A r \in RunIds : /\ r_unlinks[r] > 0 => Transcribed(r)
                         /\ r_unlinks[r] <= 1
    /\ p_unlinks > 0 => ProcessTranscribed
    /\ p_unlinks <= 1

\* C11 amended: the delete is issued only after the transcription step has
\* completed and removes the clip at most once; the MCP server's run issues
\* it a second time exactly on the path where formatting or persistence
\* failed after the clip was deleted, where it finds no clip; the menu-bar
\* run issues it at most once.
C11_RemoveOnce ==
    /\ \A r \in RunIds :
          /\ r_unlinks[r] > 0 => Transcribed(r)
          /\ (r_clip[r] = "deleted") <=> (r_unlinks[r] >= 1)
          /\ r_unlinks[r] <= 2
          /\ (r_pc[r] = "except" /\ r_fail[r] = "save") =>
                r_clip[r] = "deleted" /\ r_unlinks[r] = 1
          /\ r_unlinks[r] = 2 => r_fail[r] = "save" /\ r_pc[r] = "finally"
    /\ p_unlinks > 0 => ProcessTranscribed
    /\ (p_clip = "deleted") <=> (p_unlinks = 1)
    /\ p_unlinks <= 1

C11_Witness == \E r \in RunIds : r_unlinks[r] = 2 /\ r_out[r] = "failed"

\* C12: whenever a pipeline run has finished, whatever stage failed, the
\* temporary clip handed to it no longer exists.
C12_NoClipRetained ==
    /\ \A r \in RunIds : r_pc[r] = "finally" => r_clip[r] = "deleted"
    /\ p_pc \in {"none", "crashed"} => p_clip # "exists"

\* C13: no error of a pipeline stage leaves the run as an unhandled
\* exception: the menu bar's _process thread is not ended by one, and the
\* loop thread that calls watch.on_stop is not ended by one.  (_process_audio
\* of the MCP server catches every Exception; its run always reaches finally.)
C13_NothingEscapes ==
    /\ p_pc # "crashed"
    /\ \A t \in Threads : (caller = "headless" /\ ev = "stop") => pc[t] # "dead"

\* C14: every pipeline run that starts finishes with the caller's status
\* back from transcribing/Processing: once the run's thread has ended the
\* status is not transcribing, and _processing is false when no run is left.
C14_StatusRestored ==
    /\ p_pc \in {"none", "crashed"} => a_state # "transcribing"
    /\ (m_pending = 0 /\ \A r \in RunIds : ~InFlight(r)) => ~m_processing

\* once _process has ended by an exception the status stays transcribing
StuckTranscribing ==
    [][ p_pc = "crashed" => p_pc' = "crashed" /\ a_state' = "transcribing" ]_vars

\* ---- properties of merge ----

\* the overlap of segment i with turn j
Ov(i, j) == Overlap(g_transcript[i], g_diar[j])

\* turn j has the greatest overlap with segment i, that overlap is positive,
\* and no earlier turn reaches it
FirstGreatest(i, j) ==
    /\ Ov(i, j) > 0
    /\ \A k \in DOMAIN g_diar : Ov(i, k) <= Ov(i, j)
    /\ \A k \in 1..(j - 1) : Ov(i, k) < Ov(i, j)

\* C15: merge assigns to every segment the speaker of the turn with the
\* greatest positive overlap, the first of them in diarization order when
\* several turns reach the same maximum.
C15_GreatestOverlapFirstWins ==
    g_merged =>
        \A i \in DOMAIN g_transcript : \A j \in DOMAIN g_diar :
            FirstGreatest(i, j) => g_transcript[i].speaker = g_diar[j].speaker

C15_Witness ==
    /\ g_merged
    /\ \E i \in DOMAIN g_transcript : \E j, k \in DOMAIN g_diar :
          /\ j < k /\ FirstGreatest(i, j) /\ Ov(i, k) = Ov(i, j)
          /\ g_diar[j].speaker # g_diar[k].speaker
          /\ g_transcript[i].speaker = g_diar[j].speaker

\* C16: merge labels a segment "Unknown" exactly when no turn has strictly
\* positive overlap with it (an empty turn list and turns that only touch it
\* included); otherwise the label is a speaker of the given turns.
C16_UnknownIffNoOverlap ==
    g_merged =>
        \A i \in DOMAIN g_transcript :
            /\ (g_transcript[i].speaker = "Unknown") <=>
                  (\A j \in DOMAIN g_diar : Ov(i, j) <= 0)
            /\ g_transcript[i].speaker # "Unknown" =>
                  \E j \in DOMAIN g_diar : g_transcript[i].speaker = g_diar[j].speaker

C16_Witness ==
    /\ g_merged
    /\ \E i \in DOMAIN g_transcript : \E j \in DOMAIN g_diar :
          Ov(i, j) = 0 /\ g_transcript[i].speaker = "Unknown"

\* ---------------------------------------------------------------------
\* C17: stop() called after start() with zero callback invocations
\* returns None: it does not raise, no clip file is written, and the
\* recorder is left with _recording false and _stream None.
C17_EmptyStopReturnsNone ==
    (rc_stop = "returned" /\ rc_was_active /\ rc_next = 0)
        => (rc_ret = "None" /\ ~rc_recording /\ rc_stream = "none")

C17_Witness ==
    rc_stop = "returned" /\ rc_was_active /\ rc_next = 0 /\ rc_ret = "None"

\* the blocks of f are distinct and in the order they were delivered
ArrivalOrder(f) == \A i, j \in 1..Len(f) : i < j => f[i] < f[j]

StopReturns == rc_stop = "copied" /\ rc_stop' = "returned"

AfterCopy == rc_stop \in {"copied", "returned"} /\ rc_stop' \in {"copied", "returned"}

\* C18: under every interleaving of callback appends with one stop() call,
\* no block is appended once stop() has copied the buffer, and the clip
\* stop() returns holds every appended block exactly once in arrival order.
C18_NoFrameLostOrDuplicated ==
    [][/\ AfterCopy => rc_frames' = rc_frames
       /\ StopReturns => (rc_copy = rc_frames /\ ArrivalOrder(rc_copy))]_vars

\* the same with every stream the recorder opened still referenced by it
C18_SingleStream ==
    [][(rc_leaked = 0 /\ rc_leaked' = 0)
         => /\ AfterCopy => rc_frames' = rc_frames
            /\ StopReturns => (rc_copy = rc_frames /\ ArrivalOrder(rc_copy))]_vars

\* a stop() call in progress is never blocked for good: either its next
\* statement can run or the callback it waits for can finish
StopProgress ==
    rc_stop \in {"flagged", "closed", "copied"}
        => ENABLED (StopClose \/ StopCopy \/ StopReturn \/ CbAppend("cur"))

\* C19: start() on a recorder that is already active changes nothing: the
\* frames captured so far are kept and no stream is left open unreferenced.
C19_StartWhileActiveIsNoOp ==
    [][(rc_recording /\ \E ok \in BOOLEAN : RecStart(ok))
         => (rc_frames' = rc_frames /\ rc_leaked' = rc_leaked)]_vars

\* C20: after stop() returns the frame buffer is empty, and a stop() on a
\* recorder that was not started again returns None.
C20_StopDrains ==
    rc_stop = "returned"
        => (rc_frames = <<>> /\ (~rc_was_active => rc_ret = "None"))

\* the second half of C20 alone
SecondStopReturnsNone ==
    (rc_stop = "returned" /\ ~rc_was_active) => rc_ret = "None"

\* ---- properties of the watcher's calls and app checks ----

\* C22: start() on a running watcher changes nothing: no thread is created
\* and _state, _since and _no_app_polls are not reset, so a second call in a
\* row leaves what the first one left.
C22_StartIdempotent ==
    [][(running /\ op' = "start") => UNCHANGED watcherVars]_vars

C22_Witness == op = "start" /\ running /\ state = "recording" /\ no_app_polls > 0

\* how far a loop thread is from its end once the flag is cleared
Rank(p) == CASE p = "dead" -> 0 [] p = "ready" -> 1 [] p = "sleep" -> 2 [] OTHER -> 3

\* C23: stop() returns without waiting for the loop; while the flag stays
\* cleared every loop thread only moves towards its end (the iteration in
\* progress, its sleep, the test of the flag, return), starts no further
\* iteration, and nothing but an iteration in progress changes the state or
\* calls a callback; a thread at the test of the flag can return.
C23_LoopEnds ==
    [][(~running /\ ~running') =>
          /\ \A t \in Threads : Rank(pc'[t]) <= Rank(pc[t])
          /\ (state' # state \/ no_app_polls' # no_app_polls \/ ev' # "none")
                => \E t \in Threads : pc[t] = "body" /\ pc'[t] = "sleep"
          /\ \A t \in Threads : pc[t] = "ready" => ENABLED LoopExit(t)]_vars

C23_Witness == stopped /\ ~running /\ ev = "start" /\ pc[1] = "sleep"

\* C25: _since is set exactly when the state is warming, recording or
\* cooling, after any sequence of iterations and start()/stop() calls.
C25_SinceIffNotIdle == (state = "idle") <=> (since = None)

C25_Witness == op = "start" /\ state = "idle" /\ since = None /\ rec_started # None

\* C28: once a conversation has ended, while the mic stays active and every
\* app check is negative, on_start is not called again.
C28_NoRetrigger == [][ev' = "start" => ~warm]_vars

\* C30: with the mic active, Active is left for Cooling only on the
\* APP_GONE_POLLS-th consecutive negative app check; a positive check sets
\* the counter to 0 and fewer negative checks in a row leave the state Active.
C30_ConsecutiveNegatives ==
    [][/\ (IsTick /\ state = "recording" /\ state' = "cooling" /\ active')
             => (chk' = "neg" /\ neg' = APP_GONE_POLLS)
       /\ (state = "recording" /\ chk' = "pos")
             => (no_app_polls' = 0 /\ state' = "recording")
       /\ (state = "recording" /\ chk' = "neg" /\ neg' < APP_GONE_POLLS)
             => state' = "recording"]_vars

C30_Witness ==
    state = "cooling" /\ active /\ chk = "neg" /\ neg = APP_GONE_POLLS /\ left = 0

\* C21: whether stop() returns or raises (the quantization or the writing
\* of the clip fails), the recorder then holds no stream, the stream it
\* held is closed, and is_recording is false.
C21_StreamReleased ==
    rc_stop = "returned" => (rc_stream = "none" /\ ~rc_recording)

C21_Witness ==
    rc_stop = "returned" /\ rc_ret = "raised" /\ rc_was_active /\ rc_stream = "none"

\* ---- properties of the watcher with its callers ----

\* the step clears the watcher's flag: MicWatcher.stop() called by the menu
\* bar's toggle
StopsWatcher == caller = "menu" /\ running /\ ~running'

\* C24: stopping the watcher (stop(), called by toggle_auto_record) leaves a
\* recorder that is recording and a pipeline run in progress as they are
\* and calls no callback; with the flag cleared on_stop can be called only by
\* an iteration that was already in progress.
C24_StopCancelsNothing ==
    [][/\ StopsWatcher =>
             (ev' = "none" /\ UNCHANGED <<a_rec, a_state, procVars, conv_runs>>)
       /\ (~running /\ ~running' /\ CallsOnStop) =>
             \E t \in Threads : pc[t] = "body"]_vars

C24_Witness ==
    /\ caller = "menu" /\ stopped /\ ~running /\ \A t \in Threads : pc[t] = "dead"
    /\ state = "recording" /\ a_rec = "recording" /\ a_state = "recording"

\* the step makes a Recorder and starts it: a callback of on_start that
\* started a capture, or the menu item
OpensRecorder ==
    \/ ev' = "start" /\ pc' # pc /\ conv_capture' = "started"
    \/ a_rec' = "recording" /\ a_rec # a_rec'

\* C26: no Recorder is opened while an earlier one is still recording.
C26_OneCapture == [][OpensRecorder => a_rec # "recording"]_vars

\* the step is the Cooling->Idle iteration of a session that is dropped
DropsSession == state = "cooling" /\ state' = "idle" /\ pc' # pc /\ ev' = "none"

\* C27: when a session shorter than MIN_SAVE_SECS returns to Idle, on_stop
\* is not called and the capture its on_start started is no longer recording.
C27_ShortSessionDiscarded ==
    [][(DropsSession /\ conv_capture = "started") => a_rec' # "recording"]_vars

\* C29: no pipeline run is executed by a loop thread of the watcher, so
\* that the loop goes on iterating while a run is in progress.
C29_PipelineOffLoop == \A t \in Threads : pc[t] # "callback"

\* ---- the app check and the grace window ----

\* the step is an iteration of loop thread t
TickOf(t) == pc[t] \in {"ready", "body"} /\ pc'[t] = "sleep"

C32_RejoinResumes ==
    [][\A t \in Threads :
          (TickOf(t) /\ state = "cooling" /\ active' /\ chk' = "pos") =>
             /\ state' = "recording"
             /\ ev' = "none" /\ n_start' = n_start
             /\ rec_started' = rec_started
             /\ since' = 0 /\ no_app_polls' = 0]_vars

C32_Witness ==
    /\ state = "recording" /\ chk = "pos" /\ since = 0
    /\ rec_started # None /\ rec_started > 0

\* C33: a tick takes the watcher from Cooling to Idle only if it finds the
\* mic idle or if the last APP_GONE_POLLS app checks were all negative.
C33_EndedByStopCondition ==
    [][\A t \in Threads :
          (TickOf(t) /\ state = "cooling" /\ state' = "idle") =>
             (~active' \/ neg' = APP_GONE_POLLS)]_vars

\* C34: a tick of a loop with the mic active takes Idle to
\* Warming and starts the timer, keeps Warming while less than WARMUP_SECS
\* have passed, and takes Warming to Active with on_start once WARMUP_SECS
\* have passed; a tick with the mic idle takes Active to Cooling and starts
\* the timer, keeps Cooling while less than GRACE_SECS have passed, and takes
\* Cooling to Idle once GRACE_SECS have passed.  With ticks one second apart
\* that is the sixth tick of either run.
C34_ReachesActiveAndIdle ==
    [][\A t \in Threads : TickOf(t) =>
          /\ (state = "idle" /\ active') => (state' = "warming" /\ since' = 0)
          /\ (state = "warming" /\ active' /\ since < WARMUP_SECS) =>
                (state' = "warming" /\ since' = since)
          /\ (state = "warming" /\ active' /\ since >= WARMUP_SECS) =>
                (state' = "recording" /\ ev' = "start")
          /\ (state = "recording" /\ ~active') => (state' = "cooling" /\ since' = 0)
          /\ (state = "cooling" /\ ~active' /\ since < GRACE_SECS) =>
                (state' = "cooling" /\ since' = since)
          /\ (state = "cooling" /\ ~active' /\ since >= GRACE_SECS) =>
                state' = "idle"]_vars

C34_Witness ==
    /\ state = "idle" /\ ~active /\ ~stopped /\ run = None
    /\ last_event = "start" /\ n_start = 1 /\ ev = "none"
    /\ \E t \in Threads : pc[t] = "sleep"

\* the step is a call of on_start by a loop thread
CallsOnStart == ev' = "start" /\ \E t \in Threads : TickOf(t) \/ (pc[t] \in {"ready", "body"} /\ pc'[t] = "dead")

\* C35: in the menu-bar app an on_start that finds the app recording or
\* transcribing starts no capture and leaves the recorder, the app state and
\* the run in progress as they are; an on_start changes the recorder only
\* when it finds the app idle or watching.
C35_StartIgnoredWhileBusy ==
    [][(caller = "menu" /\ CallsOnStart) =>
          /\ a_state \in {"recording", "transcribing"} =>
                (conv_capture' = "ignored" /\ UNCHANGED <<a_rec, a_state, procVars>>)
          /\ a_state \notin {"recording", "transcribing"} =>
                (a_state \in {"idle", "watching"} /\ a_rec' \in {"recording", "broken"}
                 /\ conv_capture' # "ignored")]_vars

C35_Witness ==
    /\ caller = "menu" /\ ev = "start" /\ conv_capture = "ignored"
    /\ a_state = "transcribing" /\ p_pc # "none"

\* ---- the loop threads of one watcher ----

\* MicWatcher.is_watching
IsWatching == running

\* C37: whenever is_watching is true a loop thread of the watcher is alive.
C37_WatchingMeansLoopAlive == IsWatching => \E t \in Threads : pc[t] # "dead"

\* ---- failures and outcomes in the MCP server ----

\* C38: a recorder whose start() failed to open the input stream does not
\* report is_recording, so that start_recording does not answer "Already
\* recording." because of it.
C38_FailedStartNotRecording == m_rec = "broken" => ~McpIsRecording

\* the step is the end of a run: `finally: _processing = False`
RunEnds == \E r \in RunIds : r_pc[r] = "finally" /\ r_pc'[r] = "unborn"

\* C39: while _processing is false _last_result and _last_error are not both
\* set, and at the end of a run exactly one of them is set.
C39_OneOutcome ==
    [][/\ ~m_processing' => ~(m_last_result' # 0 /\ m_last_error' # 0)
       /\ RunEnds => ((m_last_result' # 0) # (m_last_error' # 0))]_vars

\* ---- the app-gone counter ----

\* C40: between iterations _no_app_polls is at least 0 and less than
\* APP_GONE_POLLS, and it is 0 unless the watcher is in Active.
C40_NoAppPollsRange ==
    /\ no_app_polls \in 0..(APP_GONE_POLLS - 1)
    /\ state # "recording" => no_app_polls = 0

C40_Witness == state = "recording" /\ active /\ no_app_polls = APP_GONE_POLLS - 1

\* C36: while the flag is set at most one loop thread of the watcher is
\* alive, whatever the order of the start() and stop() calls.
C36_SingleLoop == IsWatching => Cardinality(Alive) <= 1

====
